---- MODULE Spec2Model ----
(***************************************************************************)
(* Model of the GDB debug adapter of rbpf (src/src/gdb_stub.rs).           *)
(*                                                                         *)
(* Two threads: the protocol thread that owns DebugServer and runs one     *)
(* Target operation at a time, and the VM thread that owns the opposite    *)
(* ends of the two mpsc::sync_channel(0) rendezvous channels.              *)
(*                                                                         *)
(* Integers wider than TLC's are kept as little-endian sequences of 16-bit *)
(* limbs: a u64 is 4 limbs, a u32 is 2 limbs.                              *)
(***************************************************************************)
EXTENDS Integers, Sequences, FiniteSets, TLC

(* ---------------------------- bounds ---------------------------------- *)

\* operations the protocol thread invokes in one behaviour
MaxOps == 2

\* unsuccessful try_recv iterations counted in one resume(Continue)
MaxPolls == 1

\* breakpoint addresses are 0..MaxTableAddr
MaxTableAddr == 31

(* ------------------------ fixed-width integers ------------------------ *)

U64Zero == <<0, 0, 0, 0>>

U32Zero == <<0, 0>>

\* `x as u32` for a u64 x: the low 32 bits
as_u32(x) == SubSeq(x, 1, 2)

\* u64::to_le_bytes / u32::to_le_bytes: two bytes per limb, low byte first
to_le_bytes(x) ==
    [i \in 1..(2 * Len(x)) |->
        IF i % 2 = 1 THEN x[(i + 1) \div 2] % 256 ELSE x[i \div 2] \div 256]

\* Cursor::read_u64::<LittleEndian>: None when fewer than 8 bytes remain
read_u64(bytes) ==
    IF Len(bytes) < 8
    THEN [ok |-> FALSE, val |-> U64Zero]
    ELSE [ok |-> TRUE,
          val |-> [i \in 1..4 |-> bytes[2 * i - 1] + 256 * bytes[2 * i]]]

(* ----------------------------- BpfRegs -------------------------------- *)

BpfRegs(r, sp, pc) == [r |-> r, sp |-> sp, pc |-> pc]

\* BpfRegs::default()
RegsDefault == BpfRegs([i \in 1..10 |-> U64Zero], U32Zero, U32Zero)

RegsA == BpfRegs([i \in 1..10 |-> <<i, 0, 0, i>>], <<512, 1>>, <<24, 0>>)

RegsB == BpfRegs([i \in 1..10 |-> <<256 * i + 1, 2, 3, 1027>>], <<513, 7>>, <<1, 2>>)

\* register files the VM thread replies with and write_registers sends
RegFiles == {RegsA}

\* the caller's register file when read_registers is called
CallerRegFiles == {RegsB}

(* ----------------------------- BpfRegId ------------------------------- *)

\* register size BpfRegId::from_raw_id declares to the protocol layer
DeclaredRegSize == 64

\* number of raw register ids BpfRegId::from_raw_id accepts
NumRegIds == 13

from_raw_id_Inclusive(id) ==
    IF id <= NumRegIds
    THEN [some |-> TRUE, id |-> id % 256, size |-> DeclaredRegSize]
    ELSE [some |-> FALSE, id |-> 0, size |-> 0]

\* BpfRegId::from_raw_id: Some((BpfRegId(id as u8), 64)) when id < 13
from_raw_id(id) ==
    IF id < NumRegIds
    THEN [some |-> TRUE, id |-> id % 256, size |-> DeclaredRegSize]
    ELSE [some |-> FALSE, id |-> 0, size |-> 0]

(* ------------------------- VmRequest / VmReply ------------------------ *)

Req(kind, reg, val, addr, len, data, rf) ==
    [kind |-> kind, reg |-> reg, val |-> val, addr |-> addr, len |-> len,
     data |-> data, regs |-> rf]

NoReq == Req("None", 0, U64Zero, U64Zero, 0, <<>>, RegsDefault)

ReqContinue == Req("Continue", 0, U64Zero, U64Zero, 0, <<>>, RegsDefault)

ReqStep == Req("Step", 0, U64Zero, U64Zero, 0, <<>>, RegsDefault)

ReqReadReg(id) == Req("ReadReg", id, U64Zero, U64Zero, 0, <<>>, RegsDefault)

ReqReadRegs == Req("ReadRegs", 0, U64Zero, U64Zero, 0, <<>>, RegsDefault)

ReqWriteReg(id, v) == Req("WriteReg", id, v, U64Zero, 0, <<>>, RegsDefault)

ReqWriteRegs(rf) == Req("WriteRegs", 0, U64Zero, U64Zero, 0, <<>>, rf)

ReqReadMem(a, n) == Req("ReadMem", 0, U64Zero, a, n, <<>>, RegsDefault)

ReqWriteMem(a, n, d) == Req("WriteMem", 0, U64Zero, a, n, d, RegsDefault)

\* SetBrkpt(u32) and RemoveBrkpt(u32) carry a 2-limb address
ReqSetBrkpt(a32) == Req("SetBrkpt", 0, U64Zero, a32, 0, <<>>, RegsDefault)

ReqRemoveBrkpt(a32) == Req("RemoveBrkpt", 0, U64Zero, a32, 0, <<>>, RegsDefault)

Rep(kind, code, msg, rf, val, bytes) ==
    [kind |-> kind, code |-> code, msg |-> msg, regs |-> rf, val |-> val,
     bytes |-> bytes]

NoReply == Rep("None", 0, "", RegsDefault, U64Zero, <<>>)

RepUnit(kind) == Rep(kind, 0, "", RegsDefault, U64Zero, <<>>)

RepHalted(code) == Rep("Halted", code, "", RegsDefault, U64Zero, <<>>)

RepErr(e) == Rep("Err", 0, e, RegsDefault, U64Zero, <<>>)

RepReadRegs(rf) == Rep("ReadRegs", 0, "", rf, U64Zero, <<>>)

RepReadReg(v) == Rep("ReadReg", 0, "", RegsDefault, v, <<>>)

RepReadMem(b) == Rep("ReadMem", 0, "", RegsDefault, U64Zero, b)

(* --------------------------- sample inputs ---------------------------- *)

\* breakpoint addresses: 0x1000 and 0x1_0000_1000
Addrs == {<<4096, 0, 0, 0>>, <<4096, 0, 1, 0>>}

\* start addresses of memory accesses: 0x2000
MemAddrs == {<<8192, 0, 0, 0>>}

\* 42
RegVals == {<<42, 0, 0, 0>>}

\* largest raw register id considered
MaxRawId == 15

\* raw register ids a client asks for: a declared one, the first undeclared
RawIds == {3, 13}

ExitCodes == {0, 1}

\* destination lengths of read_addrs
MemLens == {1, 2}

MemBytes == {<<17>>, <<17, 34>>}

\* register payloads of write_register: a full 8-byte value, a short one
RegBytes == {to_le_bytes(v) : v \in RegVals} \cup {<<42, 0, 0, 0>>}

\* actions other than Step and Continue
OtherActions == {"StepWithSignal", "ContinueWithSignal"}

VmErrs == {"invalid address"}

\* every reply the VM thread can put on the reply channel
Replies ==
    {RepUnit(k) : k \in {"DoneStep", "Interrupt", "Terminated", "Breakpoint",
                         "WriteRegs", "WriteReg", "WriteMem", "SetBrkpt",
                         "RemoveBrkpt"}}
    \cup {RepHalted(c) : c \in ExitCodes}
    \cup {RepErr(e) : e \in VmErrs}
    \cup {RepReadRegs(rf) : rf \in RegFiles}
    \cup {RepReadReg(v) : v \in RegVals}
    \cup {RepReadMem(b) : b \in MemBytes}

Zeros(n) == [i \in 1..n |-> 0]

(* ------------------------------ state --------------------------------- *)

VARIABLES
    pc,            \* protocol thread: "idle", "send", "recv", "poll", "panicked"
    op,            \* the Target operation in progress, or the last one
    nops,          \* operations invoked so far
    req,           \* request channel: the request the adapter is blocked sending
    reply,         \* reply channel: the reply the VM thread is blocked sending
    vm,            \* VM thread's channel endpoints: "open" or "closed"
    vmPending,     \* the request the VM thread received and has not answered
    invoked,       \* requests in the order the operations started sending them
    vmSeen,        \* requests in the order the VM thread received them
    answered,      \* operations that consumed the reply that ended their wait
    opSends,       \* requests the operation in progress has put on the channel
    opRecvs,       \* replies the operation in progress has taken off the channel
    lastReply,     \* last reply the operation in progress took off the channel
    lastPoll,      \* outcome of the last try_recv of resume(Continue)
    polls,         \* unsuccessful try_recv iterations of resume(Continue)
    result,        \* what the last operation returned
    dst,           \* caller-supplied byte buffer of read_addrs / read_register
    regs,          \* caller-supplied register file of read_registers
    session,       \* GdbStub::run in start_debug_server
    gdb_interrupt, \* the debugger-side interrupt the GdbInterrupt handle reports
    cstage,        \* register codec: "idle", "fresh", "serialized", "deserialized"
    csrc,          \* the register file gdb_serialize is called on
    cout,          \* what gdb_serialize gave to write_byte, in order
    cin,           \* the bytes gdb_deserialize is called with
    cself,         \* the register file gdb_deserialize is called on
    cbefore,       \* cself when gdb_deserialize was called
    cres,          \* what gdb_deserialize returned: "none", "Ok", "Err"
    table,         \* the VM thread's breakpoint table
    net,           \* addresses inserted into the table and not removed since
    tlast          \* the last operation on the table

\* the adapter, the channels and the VM thread
adapterVars == <<pc, op, nops, req, reply, vm, vmPending, invoked, vmSeen,
                 answered, opSends, opRecvs, lastReply, lastPoll, polls, result,
                 dst, regs, session, gdb_interrupt>>

\* the register codec
codecVars == <<cstage, csrc, cout, cin, cself, cbefore, cres>>

\* the breakpoint table
tableVars == <<table, net, tlast>>

\* what no operation of the adapter and no step of the channel touches
ext == <<codecVars, tableVars>>

vars == <<adapterVars, codecVars, tableVars>>

\* an operation with its arguments and the request it sends
Op(name, action, raw, rq) ==
    [name |-> name, action |-> action, raw |-> raw, addr |-> U64Zero,
     bytes |-> <<>>, req |-> rq]

\* a breakpoint operation called with the u64 address addr
OpAddr(name, addr, rq) == [Op(name, "", 0, rq) EXCEPT !.addr = addr]

\* write_register called for raw id raw with the bytes val
OpBytes(name, raw, val, rq) == [Op(name, "", raw, rq) EXCEPT !.bytes = val]

NoOp == Op("none", "", 0, NoReq)

\* Offsets::Sections { text, data, bss }
Sections(text, data, bss) ==
    [some |-> TRUE, text |-> text, data |-> data, bss |-> bss]

NoOffsets == [some |-> FALSE, text |-> U64Zero, data |-> U64Zero, bss |-> "None"]

Res(status, stop, code, msg) ==
    [status |-> status, stop |-> stop, code |-> code, msg |-> msg,
     offsets |-> NoOffsets]

NoRes == Res("none", "", 0, "")

\* Ok(()) and Ok(true)
ResOk == Res("ok", "", 0, "")

\* Ok(StopReason::..)
ResStop(stop, code) == Res("ok", stop, code, "")

\* Err(e) of resume, whose error type is Self::Error
ResErr(e) == Res("err", "", 0, e)

\* Err(TargetError::Fatal(e))
ResFatal(e) == Res("fatal", "", 0, e)

\* a panic of the protocol thread
ResPanic(e) == Res("panic", "", 0, e)

\* DebugServer::new and the first debugger.run of start_debug_server
AdapterInit ==
    /\ pc = "idle"
    /\ op = NoOp
    /\ nops = 0
    /\ req = NoReq
    /\ reply = NoReply
    /\ vm = "open"
    /\ vmPending = NoReq
    /\ invoked = <<>>
    /\ vmSeen = <<>>
    /\ answered = 0
    /\ opSends = 0
    /\ opRecvs = 0
    /\ lastReply = NoReply
    /\ lastPoll = "none"
    /\ polls = 0
    /\ result = NoRes
    /\ dst = <<>>
    /\ regs = RegsDefault
    /\ session = "first"
    /\ gdb_interrupt = FALSE

\* no register file is being transferred
CodecIdle ==
    /\ cstage = "idle"
    /\ csrc = RegsDefault
    /\ cout = <<>>
    /\ cin = <<>>
    /\ cself = RegsDefault
    /\ cbefore = RegsDefault
    /\ cres = "none"

\* the breakpoint table of a session that has not started
TableIdle ==
    /\ table = [variant |-> "Small", small |-> <<>>, large |-> {}]
    /\ net = {}
    /\ tlast = [op |-> "none", addr |-> 0]

Init ==
    /\ AdapterInit
    /\ CodecIdle
    /\ TableIdle

(* ------------------ start_debug_server: the run loop ------------------ *)

\* debugger.run returns on a target error and on an exited target; the
\* thread re-enters run once after a target error and unwraps the second
SessionAfter(s, res) ==
    IF res.status \in {"err", "fatal"}
    THEN IF s = "first" THEN "reentered" ELSE "crashed"
    ELSE IF res.stop = "Exited" THEN "exited" ELSE s

\* the run loop is dispatching client commands
Serving == session \in {"first", "reentered"}

CanInvoke == pc = "idle" /\ Serving /\ nops < MaxOps

(* --------------------- steps common to operations --------------------- *)

\* the control state an operation is in once its request was handed over
AfterSend_NoWait(o) ==
    IF o.name = "resume" /\ o.action = "Continue" THEN "poll"
    ELSE IF o.name = "write_addrs" THEN "idle" ELSE "recv"

AfterSend(o) ==
    IF o.name = "resume" /\ o.action = "Continue" THEN "poll" ELSE "recv"

\* the caller passes no byte buffer
NoBuf == <<>>

\* self.req.send(rq): the operation starts with the caller's byte buffer
\* buf and register file rf, and blocks in send
Start(o, rq, buf, rf) ==
    /\ pc' = "send"
    /\ op' = o
    /\ nops' = nops + 1
    /\ req' = rq
    /\ invoked' = Append(invoked, rq)
    /\ opSends' = 1
    /\ opRecvs' = 0
    /\ lastReply' = NoReply
    /\ lastPoll' = "none"
    /\ polls' = 0
    /\ result' = NoRes
    /\ dst' = buf
    /\ regs' = rf
    /\ gdb_interrupt' = FALSE
    /\ UNCHANGED <<ext, reply, vm, vmPending, vmSeen, answered, session>>

\* the run loop dispatches a client command to an operation that sends
Send(o, rq, buf, rf) ==
    /\ CanInvoke
    /\ Start(o, rq, buf, rf)

\* an operation returns without any channel traffic
ReturnLocally(o, res) ==
    /\ CanInvoke
    /\ pc' = "idle"
    /\ op' = o
    /\ nops' = nops + 1
    /\ opSends' = 0
    /\ opRecvs' = 0
    /\ lastReply' = NoReply
    /\ lastPoll' = "none"
    /\ polls' = 0
    /\ result' = res
    /\ session' = SessionAfter(session, res)
    /\ dst' = NoBuf
    /\ regs' = RegsDefault
    /\ gdb_interrupt' = FALSE
    /\ UNCHANGED <<ext, req, reply, vm, vmPending, invoked, vmSeen, answered>>

\* self.reply.recv() hands over the reply the VM thread is blocked sending
TakeReply(name) ==
    /\ pc = "recv"
    /\ op.name = name
    /\ reply # NoReply
    /\ lastReply' = reply
    /\ reply' = NoReply
    /\ opRecvs' = opRecvs + 1
    /\ answered' = answered + 1

\* the operation returns res to the run loop
Return(res) ==
    /\ pc' = "idle"
    /\ result' = res
    /\ session' = SessionAfter(session, res)

\* the operation panics: the protocol thread is gone
Panic(e) ==
    /\ pc' = "panicked"
    /\ result' = ResPanic(e)
    /\ session' = "crashed"

\* the match every blocking operation but resume applies to its reply
MatchReply(expected, rp) ==
    IF rp.kind = expected THEN ResOk
    ELSE IF rp.kind = "Err" THEN ResFatal(rp.msg)
    ELSE ResFatal("unexpected reply from VM")

(* ------------------- SingleThreadOps::resume -------------------------- *)

\* the match of the Step arm on the one reply it receives
StepArm_BreakpointStops(rp) ==
    IF rp.kind = "DoneStep" THEN ResStop("DoneStep", 0)
    ELSE IF rp.kind = "Halted" THEN ResStop("Exited", rp.code)
    ELSE IF rp.kind = "Breakpoint" THEN ResStop("SwBreak", 0)
    ELSE ResErr("unexpected  from VM")

StepArm(rp) ==
    IF rp.kind = "DoneStep" THEN ResStop("DoneStep", 0)
    ELSE IF rp.kind = "Halted" THEN ResStop("Exited", rp.code)
    ELSE ResErr("unexpected  from VM")

\* the match of the Continue arm on a reply try_recv delivered:
\* done = FALSE is `continue`
ContinueArm_StepStops(rp) ==
    IF rp.kind = "Halted"
    THEN [done |-> TRUE, res |-> ResStop("Exited", rp.code)]
    ELSE IF rp.kind = "Breakpoint"
    THEN [done |-> TRUE, res |-> ResStop("SwBreak", 0)]
    ELSE IF rp.kind = "DoneStep"
    THEN [done |-> TRUE, res |-> ResStop("DoneStep", 0)]
    ELSE [done |-> FALSE, res |-> NoRes]

ContinueArm_Swapped(rp) ==
    IF rp.kind = "Halted"
    THEN [done |-> TRUE, res |-> ResStop("SwBreak", 0)]
    ELSE IF rp.kind = "Breakpoint"
    THEN [done |-> TRUE, res |-> ResStop("Exited", 0)]
    ELSE [done |-> FALSE, res |-> NoRes]

\* Halted(code) => Exited(code), Breakpoint => SwBreak, Ok(_) => continue
ContinueArm(rp) ==
    IF rp.kind = "Halted"
    THEN [done |-> TRUE, res |-> ResStop("Exited", rp.code)]
    ELSE IF rp.kind = "Breakpoint"
    THEN [done |-> TRUE, res |-> ResStop("SwBreak", 0)]
    ELSE [done |-> FALSE, res |-> NoRes]

\* resume(Step, _) up to its send
resume_Step ==
    /\ Send(Op("resume", "Step", 0, ReqStep), ReqStep, NoBuf, RegsDefault)

\* resume(Continue, _) up to its send
resume_Continue ==
    /\ Send(Op("resume", "Continue", 0, ReqContinue), ReqContinue, NoBuf, RegsDefault)

resume_Other_AsContinue ==
    \E a \in OtherActions :
        Send(Op("resume", a, 0, ReqContinue), ReqContinue, NoBuf, RegsDefault)

\* resume with any other action
resume_Other ==
    \E a \in OtherActions :
        ReturnLocally(Op("resume", a, 0, NoReq),
                      ResErr("cannot resume with signal"))

\* Step arm: self.reply.recv() and the match
resume_Step_recv ==
    /\ op.action = "Step"
    /\ TakeReply("resume")
    /\ Return(StepArm(reply))
    /\ UNCHANGED <<ext, op, nops, req, vm, vmPending, invoked, vmSeen, opSends,
                   lastPoll, polls, dst, regs, gdb_interrupt>>

\* Continue arm: try_recv delivers a reply
resume_Continue_poll_reply ==
    /\ pc = "poll"
    /\ reply # NoReply
    /\ lastReply' = reply
    /\ reply' = NoReply
    /\ opRecvs' = opRecvs + 1
    /\ lastPoll' = "Reply"
    /\ IF ContinueArm(reply).done
       THEN /\ Return(ContinueArm(reply).res)
            /\ answered' = answered + 1
       ELSE /\ pc' = "poll"
            /\ UNCHANGED <<result, session, answered>>
    /\ UNCHANGED <<ext, op, nops, req, vm, vmPending, invoked, vmSeen, opSends,
                   polls, dst, regs, gdb_interrupt>>

\* Continue arm: try_recv returns Err(Empty), the loop goes round
resume_Continue_poll_empty ==
    /\ pc = "poll"
    /\ reply = NoReply
    /\ vm = "open"
    /\ polls < MaxPolls
    /\ lastPoll' = "Empty"
    /\ polls' = polls + 1
    /\ UNCHANGED <<ext, pc, op, nops, req, reply, vm, vmPending, invoked, vmSeen,
                   answered, opSends, opRecvs, lastReply, result, dst, regs, session,
                   gdb_interrupt>>

\* Continue arm: try_recv returns Err(Disconnected), the loop goes round
resume_Continue_poll_disconnected ==
    /\ pc = "poll"
    /\ reply = NoReply
    /\ vm = "closed"
    /\ polls < MaxPolls
    /\ lastPoll' = "Disconnected"
    /\ polls' = polls + 1
    /\ UNCHANGED <<ext, pc, op, nops, req, reply, vm, vmPending, invoked, vmSeen,
                   answered, opSends, opRecvs, lastReply, result, dst, regs, session,
                   gdb_interrupt>>

(* ---------- SingleThreadOps: registers and memory --------------------- *)

\* read_registers(regs) up to its send
read_registers ==
    \E rf \in CallerRegFiles :
        Send(Op("read_registers", "", 0, ReqReadRegs), ReqReadRegs, NoBuf, rf)

read_registers_recv_Overwrites ==
    /\ TakeReply("read_registers")
    /\ regs' = BpfRegs(reply.regs.r, reply.regs.sp, reply.regs.pc)
    /\ Return(MatchReply("ReadRegs", reply))
    /\ UNCHANGED <<ext, op, nops, req, vm, vmPending, invoked, vmSeen, opSends,
                   lastPoll, polls, dst, gdb_interrupt>>

\* the match of read_registers on the reply
read_registers_recv ==
    /\ TakeReply("read_registers")
    /\ regs' = IF reply.kind = "ReadRegs"
               THEN BpfRegs(reply.regs.r, reply.regs.sp, reply.regs.pc)
               ELSE regs
    /\ Return(MatchReply("ReadRegs", reply))
    /\ UNCHANGED <<ext, op, nops, req, vm, vmPending, invoked, vmSeen, opSends,
                   lastPoll, polls, dst, gdb_interrupt>>

write_registers ==
    \E rf \in RegFiles :
        Send(Op("write_registers", "", 0, ReqWriteRegs(rf)), ReqWriteRegs(rf),
             NoBuf, RegsDefault)

write_registers_recv ==
    /\ TakeReply("write_registers")
    /\ Return(MatchReply("WriteRegs", reply))
    /\ UNCHANGED <<ext, op, nops, req, vm, vmPending, invoked, vmSeen, opSends,
                   lastPoll, polls, dst, regs, gdb_interrupt>>

\* read_addrs(start_addr, dst) with dst.len() = n
read_addrs ==
    \E a \in MemAddrs, n \in MemLens :
        Send(Op("read_addrs", "", 0, ReqReadMem(a, n)), ReqReadMem(a, n),
             Zeros(n), RegsDefault)

\* the two ways a reply of the wrong length panics: the debug_assert! of a
\* debug build, copy_from_slice in a release build
LenMismatchPanics ==
    {"vm returned wrong number of bytes!",
     "source slice length does not match destination slice length"}

read_addrs_recv ==
    /\ TakeReply("read_addrs")
    /\ IF reply.kind = "ReadMem"
       THEN IF Len(reply.bytes) = Len(dst)
            THEN /\ dst' = reply.bytes
                 /\ Return(ResOk)
            ELSE /\ \E e \in LenMismatchPanics : Panic(e)
                 /\ UNCHANGED dst
       ELSE /\ Return(MatchReply("ReadMem", reply))
            /\ UNCHANGED dst
    /\ UNCHANGED <<ext, op, nops, req, vm, vmPending, invoked, vmSeen, opSends,
                   lastPoll, polls, regs, gdb_interrupt>>

write_addrs ==
    \E a \in MemAddrs, d \in MemBytes :
        Send(Op("write_addrs", "", 0, ReqWriteMem(a, Len(d), d)),
             ReqWriteMem(a, Len(d), d), NoBuf, RegsDefault)

write_addrs_recv ==
    /\ TakeReply("write_addrs")
    /\ Return(MatchReply("WriteMem", reply))
    /\ UNCHANGED <<ext, op, nops, req, vm, vmPending, invoked, vmSeen, opSends,
                   lastPoll, polls, dst, regs, gdb_interrupt>>

(* --------------------- SingleRegisterAccess --------------------------- *)

\* the protocol layer parses the raw id with from_raw_id and calls
\* read_register with a destination of the declared size
read_register ==
    \E raw \in RawIds :
        IF from_raw_id(raw).some
        THEN Send(Op("read_register", "", raw, ReqReadReg(from_raw_id(raw).id)),
                  ReqReadReg(from_raw_id(raw).id),
                  Zeros(from_raw_id(raw).size), RegsDefault)
        ELSE ReturnLocally(Op("read_register", "", raw, NoReq),
                           Res("rejected", "", 0, "unknown register"))

read_register_recv ==
    /\ TakeReply("read_register")
    /\ IF reply.kind = "ReadReg"
       THEN IF Len(to_le_bytes(reply.val)) = Len(dst)
            THEN /\ dst' = to_le_bytes(reply.val)
                 /\ Return(ResOk)
            ELSE /\ Panic("source slice length does not match destination slice length")
                 /\ UNCHANGED dst
       ELSE /\ Return(MatchReply("ReadReg", reply))
            /\ UNCHANGED dst
    /\ UNCHANGED <<ext, op, nops, req, vm, vmPending, invoked, vmSeen, opSends,
                   lastPoll, polls, regs, gdb_interrupt>>

\* the protocol layer parses the raw id with from_raw_id and calls
\* write_register with the bytes the client sent
write_register ==
    \E raw \in RawIds, val \in RegBytes :
        IF from_raw_id(raw).some
        THEN IF read_u64(val).ok
             THEN Send(OpBytes("write_register", raw, val,
                          ReqWriteReg(from_raw_id(raw).id, read_u64(val).val)),
                       ReqWriteReg(from_raw_id(raw).id, read_u64(val).val),
                       NoBuf, RegsDefault)
             ELSE ReturnLocally(OpBytes("write_register", raw, val, NoReq),
                                ResFatal("invalid number of bytes"))
        ELSE ReturnLocally(OpBytes("write_register", raw, val, NoReq),
                           Res("rejected", "", 0, "unknown register"))

write_register_recv ==
    /\ TakeReply("write_register")
    /\ Return(MatchReply("WriteReg", reply))
    /\ UNCHANGED <<ext, op, nops, req, vm, vmPending, invoked, vmSeen, opSends,
                   lastPoll, polls, dst, regs, gdb_interrupt>>

(* --------------------------- SwBreakpoint ----------------------------- *)

add_sw_breakpoint ==
    \E addr \in Addrs :
        Send(OpAddr("add_sw_breakpoint", addr, ReqSetBrkpt(as_u32(addr))),
             ReqSetBrkpt(as_u32(addr)), NoBuf, RegsDefault)

add_sw_breakpoint_recv ==
    /\ TakeReply("add_sw_breakpoint")
    /\ Return(MatchReply("SetBrkpt", reply))
    /\ UNCHANGED <<ext, op, nops, req, vm, vmPending, invoked, vmSeen, opSends,
                   lastPoll, polls, dst, regs, gdb_interrupt>>

remove_sw_breakpoint ==
    \E addr \in Addrs :
        Send(OpAddr("remove_sw_breakpoint", addr, ReqRemoveBrkpt(as_u32(addr))),
             ReqRemoveBrkpt(as_u32(addr)), NoBuf, RegsDefault)

remove_sw_breakpoint_recv ==
    /\ TakeReply("remove_sw_breakpoint")
    /\ Return(MatchReply("RemoveBrkpt", reply))
    /\ UNCHANGED <<ext, op, nops, req, vm, vmPending, invoked, vmSeen, opSends,
                   lastPoll, polls, dst, regs, gdb_interrupt>>

(* --------------------------- SectionOffsets --------------------------- *)

get_section_offsets_Forwarded ==
    Send(Op("get_section_offsets", "", 0, ReqReadRegs), ReqReadRegs, NoBuf,
         RegsDefault)

\* get_section_offsets answers by itself
get_section_offsets ==
    ReturnLocally(Op("get_section_offsets", "", 0, NoReq),
                  [ResOk EXCEPT !.offsets = Sections(U64Zero, U64Zero, "None")])

(* ------------------- unwrap on a disconnected channel ----------------- *)

\* self.req.send(..).unwrap() when the VM thread dropped its receiver
send_unwrap_disconnected ==
    /\ pc = "send"
    /\ vm = "closed"
    /\ Panic("unwrap on Err: SendError")
    /\ req' = NoReq
    /\ UNCHANGED <<ext, op, nops, reply, vm, vmPending, invoked, vmSeen, answered,
                   opSends, opRecvs, lastReply, lastPoll, polls, dst, regs,
                   gdb_interrupt>>

\* self.reply.recv().unwrap() when the VM thread dropped its sender
recv_unwrap_disconnected ==
    /\ pc = "recv"
    /\ vm = "closed"
    /\ reply = NoReply
    /\ Panic("unwrap on Err: RecvError")
    /\ UNCHANGED <<ext, op, nops, req, reply, vm, vmPending, invoked, vmSeen,
                   answered, opSends, opRecvs, lastReply, lastPoll, polls, dst, regs,
                   gdb_interrupt>>

(* ------------------------------ VM thread ----------------------------- *)

\* the protocol thread still holds its channel endpoints
AdapterAlive == pc # "panicked" /\ session \in {"first", "reentered"}

\* the VM thread receives the request: the rendezvous completes and the
\* sender goes on
VmRecvRequest ==
    /\ pc = "send"
    /\ vm = "open"
    /\ reply = NoReply
    /\ vmSeen' = Append(vmSeen, req)
    /\ vmPending' = req
    /\ req' = NoReq
    /\ pc' = AfterSend(op)
    /\ UNCHANGED <<ext, op, nops, reply, vm, invoked, answered, opSends, opRecvs, lastReply,
                   lastPoll, polls, result, dst, regs, session, gdb_interrupt>>

\* the replies whose shape matches a request
MatchingReplies(rq) ==
    IF rq.kind = "Continue"
    THEN {RepHalted(c) : c \in ExitCodes} \cup {RepUnit("Breakpoint")}
    ELSE IF rq.kind = "Step"
    THEN {RepHalted(c) : c \in ExitCodes} \cup {RepUnit("DoneStep")}
    ELSE IF rq.kind = "ReadRegs" THEN {RepReadRegs(rf) : rf \in RegFiles}
    ELSE IF rq.kind = "ReadReg" THEN {RepReadReg(v) : v \in RegVals}
    ELSE IF rq.kind = "ReadMem"
    THEN {RepReadMem(b) : b \in {m \in MemBytes : Len(m) = rq.len}}
    ELSE {RepUnit(rq.kind)}

\* the VM thread answers the request it holds with a matching reply and
\* blocks in send until the adapter takes it
VmAnswer ==
    /\ vm = "open"
    /\ AdapterAlive
    /\ vmPending # NoReq
    /\ reply = NoReply
    /\ \E r \in MatchingReplies(vmPending) : reply' = r
    /\ vmPending' = NoReq
    /\ UNCHANGED <<ext, pc, op, nops, req, vm, invoked, vmSeen, answered, opSends, opRecvs,
                   lastReply, lastPoll, polls, result, dst, regs, session,
                   gdb_interrupt>>

\* a VM thread that keeps no discipline about the shape answers the
\* request it holds with any reply
VmSendReply ==
    /\ vm = "open"
    /\ AdapterAlive
    /\ vmPending # NoReq
    /\ reply = NoReply
    /\ \E r \in Replies : reply' = r
    /\ vmPending' = NoReq
    /\ UNCHANGED <<ext, pc, op, nops, req, vm, invoked, vmSeen, answered, opSends, opRecvs,
                   lastReply, lastPoll, polls, result, dst, regs, session,
                   gdb_interrupt>>

\* the running VM halts or hits a breakpoint while the adapter polls,
\* without a request that asks for it
VmStops ==
    /\ vm = "open"
    /\ AdapterAlive
    /\ pc = "poll"
    /\ vmPending = NoReq
    /\ reply = NoReply
    /\ \E r \in MatchingReplies(ReqContinue) : reply' = r
    /\ UNCHANGED <<ext, pc, op, nops, req, vm, vmPending, invoked, vmSeen, answered,
                   opSends, opRecvs, lastReply, lastPoll, polls, result, dst, regs,
                   session, gdb_interrupt>>

\* the VM thread terminates and drops its endpoints
VmClose ==
    /\ vm = "open"
    /\ AdapterAlive
    /\ reply = NoReply
    /\ vm' = "closed"
    /\ UNCHANGED <<ext, pc, op, nops, req, reply, vmPending, invoked, vmSeen,
                   answered, opSends, opRecvs, lastReply, lastPoll, polls, result, dst,
                   regs, session, gdb_interrupt>>

(* ----------------------------- GDB client ----------------------------- *)

\* the client interrupts while resume(Continue) polls: the GdbInterrupt
\* handle passed to resume now reports a pending interrupt
GdbInterruptArrives ==
    /\ pc = "poll"
    /\ ~gdb_interrupt
    /\ gdb_interrupt' = TRUE
    /\ UNCHANGED <<ext, pc, op, nops, req, reply, vm, vmPending, invoked, vmSeen,
                   answered, opSends, opRecvs, lastReply, lastPoll, polls, result, dst,
                   regs, session>>

(* --------------------------- specifications --------------------------- *)

\* an operation takes the reply it waits for
AdapterRecv ==
    \/ resume_Step_recv
    \/ resume_Continue_poll_reply
    \/ read_registers_recv
    \/ write_registers_recv
    \/ read_addrs_recv
    \/ write_addrs_recv
    \/ read_register_recv
    \/ write_register_recv
    \/ add_sw_breakpoint_recv
    \/ remove_sw_breakpoint_recv

\* any VM thread, including one that terminates
Next ==
    \/ resume_Step
    \/ resume_Continue
    \/ resume_Other
    \/ resume_Step_recv
    \/ resume_Continue_poll_reply
    \/ resume_Continue_poll_empty
    \/ resume_Continue_poll_disconnected
    \/ read_registers
    \/ read_registers_recv
    \/ write_registers
    \/ write_registers_recv
    \/ read_addrs
    \/ read_addrs_recv
    \/ write_addrs
    \/ write_addrs_recv
    \/ read_register
    \/ read_register_recv
    \/ write_register
    \/ write_register_recv
    \/ add_sw_breakpoint
    \/ add_sw_breakpoint_recv
    \/ remove_sw_breakpoint
    \/ remove_sw_breakpoint_recv
    \/ get_section_offsets
    \/ send_unwrap_disconnected
    \/ recv_unwrap_disconnected
    \/ VmRecvRequest
    \/ VmSendReply
    \/ VmStops
    \/ VmClose
    \/ GdbInterruptArrives

Spec == Init /\ [][Next]_vars

\* a VM thread that answers every request once, in order, with a matching
\* reply, and never terminates
NextAnswering ==
    \/ resume_Step
    \/ resume_Continue
    \/ resume_Other
    \/ resume_Step_recv
    \/ resume_Continue_poll_reply
    \/ resume_Continue_poll_empty
    \/ read_registers
    \/ read_registers_recv
    \/ write_registers
    \/ write_registers_recv
    \/ read_addrs
    \/ read_addrs_recv
    \/ write_addrs
    \/ write_addrs_recv
    \/ read_register
    \/ read_register_recv
    \/ write_register
    \/ write_register_recv
    \/ add_sw_breakpoint
    \/ add_sw_breakpoint_recv
    \/ remove_sw_breakpoint
    \/ remove_sw_breakpoint_recv
    \/ get_section_offsets
    \/ VmRecvRequest
    \/ VmAnswer
    \/ GdbInterruptArrives

\* both threads are scheduled fairly
SpecAnswering ==
    /\ Init
    /\ [][NextAnswering]_vars
    /\ WF_vars(AdapterRecv)
    /\ WF_vars(VmRecvRequest)
    /\ WF_vars(VmAnswer)

(* ----------------------- a breakpoint session ------------------------- *)

\* the address 0x1000
ScenarioAddr == <<4096, 0, 0, 0>>

\* the client sets a breakpoint at 0x1000 first
ClientAddsBreakpoint ==
    /\ pc = "idle" /\ Serving
    /\ nops = 0
    /\ Start(OpAddr("add_sw_breakpoint", ScenarioAddr,
                     ReqSetBrkpt(as_u32(ScenarioAddr))),
             ReqSetBrkpt(as_u32(ScenarioAddr)), NoBuf, RegsDefault)

\* once the breakpoint was set, and again once it was removed, the client
\* continues
ClientContinues ==
    /\ pc = "idle" /\ Serving
    /\ nops \in {1, 3}
    /\ result = ResOk
    /\ Start(Op("resume", "Continue", 0, ReqContinue), ReqContinue, NoBuf,
             RegsDefault)

\* once the stop at the breakpoint was reported, the client removes it
ClientRemovesBreakpoint ==
    /\ pc = "idle" /\ Serving
    /\ nops = 2
    /\ result = ResStop("SwBreak", 0)
    /\ Start(OpAddr("remove_sw_breakpoint", ScenarioAddr,
                     ReqRemoveBrkpt(as_u32(ScenarioAddr))),
             ReqRemoveBrkpt(as_u32(ScenarioAddr)), NoBuf, RegsDefault)

ScenarioNext ==
    \/ ClientAddsBreakpoint
    \/ ClientContinues
    \/ ClientRemovesBreakpoint
    \/ add_sw_breakpoint_recv
    \/ remove_sw_breakpoint_recv
    \/ resume_Continue_poll_reply
    \/ resume_Continue_poll_empty
    \/ VmRecvRequest
    \/ VmSendReply
    \/ VmStops

\* the scripted client against a VM thread that may reply anything
SpecScenario == Init /\ [][ScenarioNext]_vars

(* --------------------------- register codec --------------------------- *)

\* register files the codec is exercised on
CodecRegFiles == {RegsDefault, RegsA, RegsB}

\* write_byte(Some(b))
Some(b) == [some |-> TRUE, byte |-> b]

\* the calls of write_byte for the bytes bs, in order
WriteBytes(bs) == [i \in 1..Len(bs) |-> Some(bs[i])]

\* the r loop of gdb_serialize, from register i on
RECURSIVE SerializeR(_, _)
SerializeR(r, i) ==
    IF i > Len(r) THEN <<>>
    ELSE WriteBytes(to_le_bytes(r[i])) \o SerializeR(r, i + 1)

gdb_serialize_PcFirst(regs_) ==
    WriteBytes(to_le_bytes(regs_.pc)) \o SerializeR(regs_.r, 1)
        \o WriteBytes(to_le_bytes(regs_.sp))

\* BpfRegs::gdb_serialize: r[0]..r[9], then sp, then pc
gdb_serialize(regs_) ==
    SerializeR(regs_.r, 1) \o WriteBytes(to_le_bytes(regs_.sp))
        \o WriteBytes(to_le_bytes(regs_.pc))

\* BpfRegs::gdb_deserialize: the body is Ok(()); self is not assigned
gdb_deserialize(self, bytes) == [res |-> "Ok", self |-> self]

\* the bytes write_byte received
Emitted(out) == [i \in 1..Len(out) |-> out[i].byte]

\* a register file to send and a register file to receive into
CodecInit ==
    /\ AdapterInit
    /\ TableIdle
    /\ cstage = "fresh"
    /\ csrc \in CodecRegFiles
    /\ cself \in CodecRegFiles
    /\ cbefore = cself
    /\ cout = <<>>
    /\ cin = <<>>
    /\ cres = "none"

\* the protocol layer serializes csrc
CallSerialize ==
    /\ cstage = "fresh"
    /\ cout' = gdb_serialize(csrc)
    /\ cstage' = "serialized"
    /\ UNCHANGED <<adapterVars, tableVars, csrc, cin, cself, cbefore, cres>>

\* the protocol layer deserializes a packet of the first n emitted bytes
CallDeserialize ==
    /\ cstage = "serialized"
    /\ \E n \in 0..Len(cout) :
        /\ cin' = SubSeq(Emitted(cout), 1, n)
        /\ cbefore' = cself
        /\ cself' = gdb_deserialize(cself, cin').self
        /\ cres' = gdb_deserialize(cself, cin').res
    /\ cstage' = "deserialized"
    /\ UNCHANGED <<adapterVars, tableVars, csrc, cout>>

CodecNext ==
    \/ CallSerialize
    \/ CallDeserialize

SpecCodec == CodecInit /\ [][CodecNext]_vars

(* -------------------------- breakpoint table -------------------------- *)

\* the cardinality above which the table is a hash set
T == 30

TableAddrs == 0..MaxTableAddr

SeqRange(s) == {s[i] : i \in 1..Len(s)}

SmallTable(s) == [variant |-> "Small", small |-> s, large |-> {}]

LargeTable(h) == [variant |-> "Large", small |-> <<>>, large |-> h]

\* contains(addr): linear scan of the sequence, or lookup in the hash set
contains(t, a) ==
    IF t.variant = "Small"
    THEN \E i \in 1..Len(t.small) : t.small[i] = a
    ELSE a \in t.large

\* number of addresses in the table
TableLen(t) ==
    IF t.variant = "Small" THEN Len(t.small) ELSE Cardinality(t.large)

insert_ForgetsMembers(t, a) ==
    IF contains(t, a) THEN t
    ELSE IF t.variant = "Large" THEN LargeTable(t.large \cup {a})
    ELSE IF Len(t.small) + 1 > T THEN LargeTable({a})
    ELSE SmallTable(Append(t.small, a))

\* insert(addr): no-op on a present address; a Small table that would
\* exceed T is rebuilt as Large with all prior members plus the new one
insert(t, a) ==
    IF contains(t, a) THEN t
    ELSE IF t.variant = "Large" THEN LargeTable(t.large \cup {a})
    ELSE IF Len(t.small) + 1 > T
    THEN LargeTable(SeqRange(t.small) \cup {a})
    ELSE SmallTable(Append(t.small, a))

\* remove(addr): on whichever variant is current, no downgrade
remove(t, a) ==
    IF t.variant = "Small"
    THEN SmallTable(SelectSeq(t.small, LAMBDA x : x # a))
    ELSE LargeTable(t.large \ {a})

Min(S) == CHOOSE x \in S : \A y \in S : x <= y

Max(S) == CHOOSE x \in S : \A y \in S : y <= x

\* an address above all the addresses in S
Fresh(S) == IF S = {} THEN 0 ELSE Max(S) + 1

\* S has no gap between its least and its greatest address
IsInterval(S) == S = {} \/ Cardinality(S) = Max(S) - Min(S) + 1

\* addresses the VM thread is asked to insert: a new one, or a present one
InsertAddrs ==
    ({Fresh(net)} \cup (IF net = {} THEN {} ELSE {Min(net)})) \cap TableAddrs

\* addresses the VM thread is asked to remove: an absent one, the least,
\* the greatest, or one in the middle of a table without gaps
RemoveAddrs ==
    IF net = {} THEN {0}
    ELSE LET lo == Min(net)
             hi == Max(net)
         IN  ({hi + 1, lo, hi}
                \cup (IF Cardinality(net) = hi - lo + 1
                      THEN {(lo + hi) \div 2} ELSE {})) \cap TableAddrs

\* the VM thread handles SetBreakpoint(a)
TableInsert ==
    \E a \in InsertAddrs :
        /\ table' = insert(table, a)
        /\ net' = net \cup {a}
        /\ tlast' = [op |-> "insert", addr |-> a]
        /\ UNCHANGED <<adapterVars, codecVars>>

\* the VM thread handles RemoveBreakpoint(a)
TableRemove ==
    \E a \in RemoveAddrs :
        /\ table' = remove(table, a)
        /\ net' = net \ {a}
        /\ tlast' = [op |-> "remove", addr |-> a]
        /\ UNCHANGED <<adapterVars, codecVars>>

TableNext ==
    \/ TableInsert
    \/ TableRemove

SpecTable == Init /\ [][TableNext]_vars

(* ------------------------------ claims -------------------------------- *)

IsPrefix(s, t) == Len(s) <= Len(t) /\ SubSeq(t, 1, Len(s)) = s

IsContinue == op.name = "resume" /\ op.action = "Continue"

IsStep == op.name = "resume" /\ op.action = "Step"

\* the kinds of reply that match the request of the operation in progress
MatchingKinds == {r.kind : r \in MatchingReplies(op.req)}

\* C1: strict request/reply alternation. Every request but the last one
\* started has had its reply consumed, so at most one request is in flight,
\* a request is on the channel only when every earlier one was answered,
\* and the VM thread receives the requests in the order of invocation.
C1_StrictAlternation ==
    /\ Len(invoked) - answered <= 1
    /\ req # NoReq => answered = Len(invoked) - 1
    /\ IsPrefix(vmSeen, invoked)
    /\ Len(invoked) - Len(vmSeen) <= 1

\* two requests went through, each after the reply to the one before
C1_Witness == Len(vmSeen) = 2 /\ answered = 2 /\ vmSeen[1] # vmSeen[2]

\* C2: a reply whose shape does not match the outstanding request makes the
\* operation return an error; it is never discarded or coerced into success.
C2_UnexpectedReplyIsFatal ==
    (lastReply # NoReply /\ lastReply.kind \notin MatchingKinds)
        => (pc = "idle" /\ result.status \in {"err", "fatal"})

\* C3: resume(Continue) sends exactly one Continue request, never blocks in
\* recv, and when it has returned the last reply it took was Halted(code)
\* and it returned Exited(code), or Breakpoint and it returned SwBreak.
C3_ContinueStops ==
    IsContinue =>
        /\ opSends = 1
        /\ op.req = ReqContinue
        /\ invoked[Len(invoked)] = ReqContinue
        /\ pc # "recv"
        /\ pc = "idle" =>
            \/ lastReply.kind = "Halted"
               /\ result = ResStop("Exited", lastReply.code)
            \/ lastReply.kind = "Breakpoint"
               /\ result = ResStop("SwBreak", 0)

\* resume(Continue) returned Exited(1) after discarding an earlier reply
C3_Witness ==
    /\ IsContinue
    /\ pc = "idle"
    /\ opRecvs = 2
    /\ result = ResStop("Exited", 1)

\* C4: resume(Step) sends exactly one Step request and, when it has
\* returned, consumed exactly one reply: DoneStep gave DoneStep,
\* Halted(code) gave Exited(code), every other reply gave an error.
C4_StepReplies ==
    IsStep =>
        /\ opSends = 1
        /\ invoked[Len(invoked)] = ReqStep
        /\ pc = "idle" =>
            /\ opRecvs = 1
            /\ lastReply.kind = "DoneStep" => result = ResStop("DoneStep", 0)
            /\ lastReply.kind = "Halted"
                   => result = ResStop("Exited", lastReply.code)
            /\ lastReply.kind \notin {"DoneStep", "Halted"}
                   => result.status = "err"

\* resume(Step) got Breakpoint and returned an error
C4_Witness ==
    /\ IsStep
    /\ pc = "idle"
    /\ lastReply.kind = "Breakpoint"
    /\ result.status = "err"

\* C5: when the VM thread's endpoints are closed the operation returns a
\* fatal error: it does not panic in send or recv, and it does not go on
\* polling once try_recv reported the disconnection.
C5_DisconnectReturnsError ==
    vm = "closed" =>
        /\ pc # "panicked"
        /\ lastPoll = "Disconnected"
               => (pc = "idle" /\ result.status \in {"err", "fatal"})

\* both threads are blocked on the channels: the adapter in send or recv,
\* the VM thread in the send of a reply nobody takes or with nothing to do
BothBlocked ==
    \/ pc = "send" /\ reply # NoReply
    \/ pc = "recv" /\ reply = NoReply /\ vmPending = NoReq

\* C6: with a VM thread that answers every request once, in order, with a
\* matching reply, and with both threads scheduled fairly, the two threads
\* are never both blocked and every operation that started returns.
C6_EveryOperationReturns ==
    /\ []~BothBlocked
    /\ (pc # "idle") ~> (pc = "idle")

\* C7: read_addrs sends ReadMem with the length of the destination; a
\* ReadMem reply of that length is copied whole into the destination and
\* the operation succeeds; a ReadMem reply of another length makes the
\* operation return a fatal error with the destination untouched.
C7_ReadAddrsLength ==
    op.name = "read_addrs" =>
        /\ op.req.kind = "ReadMem"
        /\ op.req.len = Len(dst)
        /\ (lastReply.kind = "ReadMem" /\ Len(lastReply.bytes) = op.req.len)
               => (pc = "idle" /\ result = ResOk /\ dst = lastReply.bytes)
        /\ (lastReply.kind = "ReadMem" /\ Len(lastReply.bytes) # op.req.len)
               => (pc = "idle" /\ result.status = "fatal"
                   /\ dst = Zeros(op.req.len))

\* the register, memory and breakpoint operations
DataOps ==
    {"read_registers", "write_registers", "read_register", "write_register",
     "read_addrs", "write_addrs", "add_sw_breakpoint", "remove_sw_breakpoint"}

\* C8: an Err(reason) reply to a register, memory or breakpoint request is
\* returned as a non-fatal target error carrying the reason, and the run
\* loop goes on serving: it is neither re-entered nor ended.
C8_VmErrorIsNonFatal ==
    (op.name \in DataOps /\ lastReply.kind = "Err") =>
        /\ pc = "idle"
        /\ result.status = "nonfatal"
        /\ result.msg = lastReply.msg
        /\ session = "first"

\* C9: a poll iteration of resume(Continue) that finds no reply while the
\* debugger-side interrupt is pending puts an interrupt request on the
\* request channel instead of just going round the loop.
C9_InterruptIsForwarded ==
    [][(pc = "poll" /\ gdb_interrupt /\ polls' # polls)
           => (req' # NoReq /\ req'.kind = "Interrupt")]_vars

\* C10: from_raw_id accepts exactly the raw ids below 13; no ReadReg or
\* WriteReg request carries another id, and a register command with a raw
\* id of 13 or more is rejected without any request.
C10_RegIdRange ==
    /\ \A id \in 0..MaxRawId : from_raw_id(id).some <=> id < 13
    /\ \A i \in 1..Len(invoked) :
           invoked[i].kind \in {"ReadReg", "WriteReg"} => invoked[i].reg < 13
    /\ (op.name \in {"read_register", "write_register"} /\ op.raw >= 13)
           => (op.req = NoReq /\ opSends = 0 /\ pc = "idle"
               /\ result.status = "rejected")

\* a read of raw id 13 was rejected after a request for register 3 went out
C10_Witness ==
    /\ op.name = "read_register"
    /\ op.raw = 13
    /\ result.status = "rejected"
    /\ Len(invoked) = 1
    /\ invoked[1].kind \in {"ReadReg", "WriteReg"}
    /\ invoked[1].reg = 3

\* C11: write_register with a value shorter than 8 bytes sends no request
\* and returns a recoverable (non-fatal) target error; the run loop goes on
\* serving.
C11_ShortValueIsRecoverable ==
    (op.name = "write_register" /\ from_raw_id(op.raw).some
     /\ ~read_u64(op.bytes).ok)
        => /\ opSends = 0
           /\ op.req = NoReq
           /\ pc = "idle"
           /\ result.status = "nonfatal"
           /\ session = "first"

\* C12: resume with an action other than Step and Continue returns the
\* error "cannot resume with signal" at once and sends no request.
C12_OtherActionUnsupported ==
    (op.name = "resume" /\ op.action \notin {"Step", "Continue"})
        => /\ pc = "idle"
           /\ result = ResErr("cannot resume with signal")
           /\ opSends = 0
           /\ op.req = NoReq
           /\ req = NoReq
           /\ Len(vmSeen) = Len(invoked)

\* resume(ContinueWithSignal) was refused after an operation that did send
C12_Witness ==
    /\ op.name = "resume"
    /\ op.action = "ContinueWithSignal"
    /\ result.status = "err"
    /\ Len(invoked) = 1

\* C17: write_register(id, little-endian bytes of v) sends WriteReg(id, v),
\* and a read_register(id) that follows it and is answered with the stored
\* value v returns with the little-endian bytes of v in the destination.
C17_WriteThenReadRegister ==
    /\ (op.name = "write_register" /\ from_raw_id(op.raw).some
        /\ read_u64(op.bytes).ok)
           => /\ op.req.kind = "WriteReg"
              /\ op.req.reg = op.raw
              /\ to_le_bytes(op.req.val) = op.bytes
              /\ invoked[Len(invoked)] = op.req
    /\ (op.name = "read_register" /\ Len(invoked) >= 2
        /\ invoked[Len(invoked) - 1].kind = "WriteReg"
        /\ invoked[Len(invoked) - 1].reg = op.req.reg
        /\ lastReply = RepReadReg(invoked[Len(invoked) - 1].val))
           => /\ pc = "idle"
              /\ result = ResOk
              /\ dst = to_le_bytes(invoked[Len(invoked) - 1].val)

\* C19: every call of get_section_offsets returns Sections with text 0,
\* data 0 and no bss at once, and leaves both channels, the request logs
\* and the VM thread as they were.
C19_SectionOffsetsConstant ==
    [][(nops' = nops + 1 /\ op'.name = "get_section_offsets")
           => /\ pc' = "idle"
              /\ result'.status = "ok"
              /\ result'.offsets = [some |-> TRUE, text |-> <<0, 0, 0, 0>>,
                                    data |-> <<0, 0, 0, 0>>, bss |-> "None"]
              /\ opSends' = 0
              /\ opRecvs' = 0
              /\ UNCHANGED <<req, reply, vm, vmPending, invoked, vmSeen,
                             answered>>]_vars

\* get_section_offsets answered after the VM thread had terminated
C19_Witness ==
    /\ op.name = "get_section_offsets"
    /\ pc = "idle"
    /\ result.offsets.some
    /\ vm = "closed"
    /\ Len(invoked) = 1

\* a u32 read as a u64
ZeroExtend(x) == x \o <<0, 0>>

\* C20: add_sw_breakpoint(addr) and remove_sw_breakpoint(addr) send a
\* request that carries the value of the 64-bit addr unchanged.
C20_BreakpointAddrUnchanged ==
    (op.name \in {"add_sw_breakpoint", "remove_sw_breakpoint"})
        => /\ op.req.kind = IF op.name = "add_sw_breakpoint"
                            THEN "SetBrkpt" ELSE "RemoveBrkpt"
           /\ ZeroExtend(op.req.addr) = op.addr

\* the declared width of a serialized register file: ten u64, sp, pc
SerializedWidth == 10 * 8 + 4 + 4

\* C13: deserializing the bytes gdb_serialize produced for a register file
\* r, into any register file, succeeds and leaves that register file equal
\* to r.
C13_CodecRoundTrip ==
    (cstage = "deserialized" /\ cin = Emitted(cout))
        => /\ cres = "Ok"
           /\ cself = csrc

\* C14: gdb_deserialize of a byte sequence shorter than the serialized
\* width returns an error and leaves the target register file as it was.
C14_ShortDecodeFails ==
    (cstage = "deserialized" /\ Len(cin) < SerializedWidth)
        => /\ cres = "Err"
           /\ cself = cbefore

\* byte j (0 = least significant) of the integer x
ByteOf(x, j) ==
    IF j % 2 = 0 THEN x[j \div 2 + 1] % 256 ELSE x[j \div 2 + 1] \div 256

\* C15: gdb_serialize emits exactly 88 bytes, none unavailable: byte j of
\* r[k] at offset 8k+j for k = 0..9, then the 4 bytes of sp at offset 80,
\* then the 4 bytes of pc at offset 84, all least significant byte first.
C15_SerializeLayout ==
    (cstage \in {"serialized", "deserialized"})
        => /\ Len(cout) = 88
           /\ \A i \in 1..Len(cout) : cout[i].some /\ cout[i].byte \in 0..255
           /\ \A k \in 0..9 : \A j \in 0..7 :
                  cout[8 * k + j + 1].byte = ByteOf(csrc.r[k + 1], j)
           /\ \A j \in 0..3 : cout[80 + j + 1].byte = ByteOf(csrc.sp, j)
           /\ \A j \in 0..3 : cout[84 + j + 1].byte = ByteOf(csrc.pc, j)

\* a register file whose bytes all differ from zero somewhere was serialized
C15_Witness ==
    /\ cstage = "serialized"
    /\ csrc = RegsB
    /\ Len(cout) = 88
    /\ cout[88].byte = 0
    /\ cout[87].byte = 2

\* C16: in the session add_sw_breakpoint(0x1000), Continue,
\* remove_sw_breakpoint(0x1000), Continue, where each command follows the
\* success of the one before: the first Continue, when the VM replies
\* Breakpoint, returns SwBreak; the second, when the VM replies Halted(0),
\* returns Exited(0).
C16_BreakpointScenario ==
    /\ (nops = 2 /\ pc = "idle" /\ lastReply.kind = "Breakpoint")
           => /\ invoked = <<ReqSetBrkpt(<<4096, 0>>), ReqContinue>>
              /\ result = ResStop("SwBreak", 0)
              /\ session = "first"
    /\ (nops = 4 /\ pc = "idle" /\ lastReply = RepHalted(0))
           => /\ invoked = <<ReqSetBrkpt(<<4096, 0>>), ReqContinue,
                             ReqRemoveBrkpt(<<4096, 0>>), ReqContinue>>
              /\ result = ResStop("Exited", 0)
              /\ session = "exited"

\* the whole session ran and ended with the exit of the program
C16_Witness ==
    /\ nops = 4
    /\ pc = "idle"
    /\ op.action = "Continue"
    /\ lastReply = RepHalted(0)
    /\ answered = 4

\* C18: after every insert and remove, contains(addr) is true exactly for
\* the addresses inserted and not removed since, in the Small and in the
\* Large variant; the table becomes Large only by the insert that takes it
\* above T addresses, keeping all members, and never becomes Small again;
\* an insert of a present address and a remove of an absent address leave
\* the table as it was.
C18_VariantIndependence ==
    [][/\ \A a \in TableAddrs : contains(table', a) <=> a \in net'
       /\ TableLen(table') = Cardinality(net')
       /\ table'.variant = "Small" => TableLen(table') <= T
       /\ table.variant = "Large" => table'.variant = "Large"
       /\ (table.variant = "Small" /\ table'.variant = "Large")
              => /\ tlast'.op = "insert"
                 /\ TableLen(table) = T
                 /\ \A a \in TableAddrs : contains(table, a) => contains(table', a)
       /\ (tlast'.op = "insert" /\ contains(table, tlast'.addr))
              => table' = table
       /\ (tlast'.op = "remove" /\ ~contains(table, tlast'.addr))
              => table' = table]_vars

\* the table became Large, and removals then took it below T addresses
C18_Witness ==
    /\ table.variant = "Large"
    /\ tlast.op = "remove"
    /\ Cardinality(net) < T
    /\ ~IsInterval(net)
    /\ \A a \in net : contains(table, a)

\* C21: the register size from_raw_id declares equals the 8 bytes
\* read_register writes, so a read_register called with a destination of
\* the declared size, and answered with ReadReg, returns Ok with the
\* destination filled.
C21_RegisterWidthConsistent ==
    /\ (op.name = "read_register" /\ op.req # NoReq)
           => Len(dst) = Len(to_le_bytes(op.req.val))
    /\ (op.name = "read_register" /\ lastReply.kind = "ReadReg")
           => /\ pc = "idle"
              /\ result = ResOk
              /\ dst = to_le_bytes(lastReply.val)

\* C22: while read_registers runs, the caller's register file changes only
\* in the step that takes a ReadRegs reply, which returns Ok and sets r, sp
\* and pc to the reply's values; on any other reply, and on a disconnect,
\* it stays as it was. Likewise the destination buffer of read_addrs changes
\* only in the step that takes a ReadMem reply, to the reply's bytes.
C22_ReadFrameEffect ==
    [][/\ (op.name = "read_registers" /\ nops' = nops)
           => IF pc = "recv" /\ pc' # "recv" /\ reply.kind = "ReadRegs"
              THEN /\ regs'.r = reply.regs.r
                   /\ regs'.sp = reply.regs.sp
                   /\ regs'.pc = reply.regs.pc
                   /\ result' = ResOk
              ELSE regs' = regs
       /\ (op.name = "read_addrs" /\ nops' = nops)
           => IF pc = "recv" /\ pc' = "idle" /\ reply.kind = "ReadMem"
              THEN dst' = reply.bytes /\ result' = ResOk
              ELSE dst' = dst]_vars

\* read_registers returned an error on a reply that carried no register
\* file, and the caller's register file is still the one passed in
C22_Witness ==
    /\ op.name = "read_registers"
    /\ pc = "idle"
    /\ lastReply.kind = "Err"
    /\ result.status = "fatal"
    /\ regs = RegsB

====
